---- MODULE Spec2Model ----
(***************************************************************************)
(* A model of shortmux.ServeMux: the registration of patterns into the     *)
(* routing tree and the routing index under the mux's RWMutex, and the     *)
(* lookup of a handler for a request (findHandler, matchOrRedirect,        *)
(* exactMatch, matchingMethods).                                           *)
(*                                                                         *)
(* Strings of the program (pattern strings, request paths, hosts) are      *)
(* sequences of one-character strings, so that splitting, counting and     *)
(* suffix tests are computed and not assumed. The text of a host, of a     *)
(* method or of a literal segment is the TLA+ string obtained by joining   *)
(* its characters. The alphabet holds no "%", so pathUnescape is the       *)
(* identity on every string of the model.                                  *)
(***************************************************************************)
EXTENDS Naturals, Sequences, FiniteSets, TLC

\* ------------------------------------------------------------------------
\* Strings
\* ------------------------------------------------------------------------

RECURSIVE Text(_)
Text(cs) == IF cs = <<>> THEN "" ELSE Head(cs) \o Text(Tail(cs))

\* strings.IndexByte, 1-based; 0 when c does not occur in cs.
IndexByte(cs, c) ==
  IF \E i \in 1..Len(cs) : cs[i] = c
  THEN CHOOSE i \in 1..Len(cs) : cs[i] = c /\ \A j \in 1..(i-1) : cs[j] # c
  ELSE 0

\* strings.Count(cs, c) for a one-character c.
Count(cs, c) == Cardinality({i \in 1..Len(cs) : cs[i] = c})

\* strings.HasSuffix(cs, "/").
HasSuffixSlash(cs) == Len(cs) > 0 /\ cs[Len(cs)] = "/"

\* cs[from:], 1-based from.
From(cs, from) == SubSeq(cs, from, Len(cs))

\* strings.TrimLeft(cs, " \t").
RECURSIVE TrimLeft(_)
TrimLeft(cs) ==
  IF cs # <<>> /\ Head(cs) \in {" ", "\t"} THEN TrimLeft(Tail(cs)) ELSE cs

\* The elements of a path between its slashes, in order (strings.Split on "/"
\* of the path without its leading slash).
RECURSIVE Elements(_)
Elements(cs) ==
  LET i == IndexByte(cs, "/") IN
  IF i = 0 THEN <<cs>>
  ELSE <<SubSeq(cs, 1, i-1)>> \o Elements(From(cs, i+1))

\* path.Clean's treatment of the elements of a rooted path: empty and "."
\* elements are dropped and ".." removes the element before it.
RECURSIVE cleanElements(_, _)
cleanElements(els, out) ==
  IF els = <<>> THEN out
  ELSE LET e == Head(els) IN
       IF e = <<>> \/ e = <<".">> THEN cleanElements(Tail(els), out)
       ELSE IF e = <<".", ".">>
            THEN cleanElements(Tail(els),
                               IF out = <<>> THEN out ELSE SubSeq(out, 1, Len(out)-1))
            ELSE cleanElements(Tail(els), Append(out, e))

RECURSIVE joinElements(_)
joinElements(els) ==
  IF els = <<>> THEN <<>> ELSE <<"/">> \o Head(els) \o joinElements(Tail(els))

\* path.Clean of a rooted path.
pathClean(p) ==
  LET els == cleanElements(Elements(Tail(p)), <<>>) IN
  IF els = <<>> THEN <<"/">> ELSE joinElements(els)

\* cleanPath returns the canonical path for p, eliminating . and .. elements.
cleanPath(p) ==
  IF p = <<>> THEN <<"/">>
  ELSE LET q  == IF Head(p) # "/" THEN <<"/">> \o p ELSE p
           np == pathClean(q)
       IN IF q[Len(q)] = "/" /\ np # <<"/">> THEN np \o <<"/">> ELSE np

\* stripHostPort returns h without any trailing ":<port>". net.SplitHostPort
\* fails on a host with more than one colon and no brackets, and then h is
\* returned unchanged.
stripHostPort(h) ==
  IF IndexByte(h, ":") = 0 THEN h
  ELSE IF Count(h, ":") # 1 THEN h
  ELSE SubSeq(h, 1, IndexByte(h, ":") - 1)

\* ------------------------------------------------------------------------
\* Patterns: [METHOD ][HOST]/[PATH]
\* ------------------------------------------------------------------------

Letters ==
  {"a","b","c","d","e","f","g","h","i","j","k","l","m","n","o","p","q","r","s",
   "t","u","v","w","x","y","z","A","B","C","D","E","F","G","H","I","J","K","L",
   "M","N","O","P","Q","R","S","T","U","V","W","X","Y","Z","_"}

Digits == {"0","1","2","3","4","5","6","7","8","9"}

\* The characters of an RFC 2616 token (the quote characters among them are
\* left out: no string of the model holds one).
TokenChars ==
  Letters \cup Digits \cup {"!","#","$","%","&","*","+","-",".","^","|","~"}

\* isToken reports whether v is a valid token.
isToken(v) == v # <<>> /\ \A i \in 1..Len(v) : v[i] \in TokenChars

\* A wildcard name must be a valid identifier.
isValidWildcardName(v) ==
  /\ v # <<>>
  /\ v[1] \in Letters
  /\ \A i \in 1..Len(v) : v[i] \in Letters \cup Digits

\* One path component of a pattern. A trailing slash is the anonymous multi
\* wildcard [s |-> "", wild, multi]; {$} is the literal "/".
Segment(s, wild, multi) == [s |-> s, wild |-> wild, multi |-> multi]

NoPattern == [str |-> <<>>, method |-> "", host |-> "", segments |-> <<>>]

ParseError(msg) == [err |-> msg, pat |-> NoPattern]

HasSuffixDots(v) ==
  Len(v) >= 3 /\ SubSeq(v, Len(v)-2, Len(v)) = <<".", ".", ".">>

\* The segment loop of the parser. rest is empty or begins with "/"; seen is
\* the set of wildcard names met so far. Returns [err, segs].
RECURSIVE parseSegments(_, _)
parseSegments(rest, seen) ==
  IF rest = <<>> THEN [err |-> "", segs |-> <<>>]
  ELSE
  LET r1 == Tail(rest) IN
  IF r1 = <<>> THEN [err |-> "", segs |-> <<Segment("", TRUE, TRUE)>>]
  ELSE
  LET i0    == IndexByte(r1, "/")
      i     == IF i0 = 0 THEN Len(r1) + 1 ELSE i0
      seg   == SubSeq(r1, 1, i-1)
      rest2 == From(r1, i)
      Then(sg, names) ==
        LET r == parseSegments(rest2, names) IN
        IF r.err # "" THEN r ELSE [err |-> "", segs |-> <<sg>> \o r.segs]
  IN
  IF IndexByte(seg, "{") = 0 THEN Then(Segment(Text(seg), FALSE, FALSE), seen)
  ELSE IF seg[1] # "{"
  THEN [err |-> "bad wildcard segment (must start with {)", segs |-> <<>>]
  ELSE IF seg[Len(seg)] # "}"
  THEN [err |-> "bad wildcard segment (must end with })", segs |-> <<>>]
  ELSE
  LET name0 == SubSeq(seg, 2, Len(seg)-1)
      multi == HasSuffixDots(name0)
      name  == IF multi THEN SubSeq(name0, 1, Len(name0)-3) ELSE name0
  IN
  IF name0 = <<"$">>
  THEN IF rest2 # <<>> THEN [err |-> "{$} not at end", segs |-> <<>>]
       ELSE [err |-> "", segs |-> <<Segment("/", FALSE, FALSE)>>]
  ELSE IF multi /\ rest2 # <<>>
  THEN [err |-> "{...} wildcard not at end", segs |-> <<>>]
  ELSE IF name = <<>> THEN [err |-> "empty wildcard", segs |-> <<>>]
  ELSE IF ~isValidWildcardName(name)
  THEN [err |-> "bad wildcard name", segs |-> <<>>]
  ELSE IF Text(name) \in seen
  THEN [err |-> "duplicate wildcard name", segs |-> <<>>]
  ELSE Then(Segment(Text(name), TRUE, multi), seen \cup {Text(name)})

\* The pattern of the string s once its method, its host and the result r of
\* the segment loop are known.
parsedPattern(s, method, host, r) ==
  IF r.err # "" THEN ParseError(r.err)
  ELSE [err |-> "",
        pat |-> [str |-> s, method |-> Text(method), host |-> Text(host),
                 segments |-> r.segs]]

\* The parse of the host and the path, which begin at rest0[1] and are
\* separated by the first slash, at k.
parseHostAndPath(s, method, rest0, k) ==
  IF method # <<>> /\ ~isToken(method) THEN ParseError("invalid method")
  ELSE IF k = 0 THEN ParseError("host/path missing /")
  ELSE IF IndexByte(SubSeq(rest0, 1, k-1), "{") # 0 THEN ParseError("host contains {")
  ELSE IF /\ method # <<>>
          /\ Text(method) # "CONNECT"
          /\ From(rest0, k) # cleanPath(From(rest0, k))
  THEN ParseError("non-CONNECT pattern with unclean path can never match")
  ELSE parsedPattern(s, method, SubSeq(rest0, 1, k-1),
                     parseSegments(From(rest0, k), {}))

\* The parse of s, method being what comes before its first space or tab and
\* rest0 what comes after it (s itself when it has none).
parseFrom(s, method, rest0) ==
  parseHostAndPath(s, method, rest0, IndexByte(rest0, "/"))

\* The place of the first space or tab of s, 0 when it has none.
IndexSpace(s) ==
  IF \E i \in 1..Len(s) : s[i] \in {" ", "\t"}
  THEN CHOOSE i \in 1..Len(s) :
         s[i] \in {" ", "\t"} /\ \A j \in 1..(i-1) : s[j] \notin {" ", "\t"}
  ELSE 0

\* parse(s) -> Pattern | SyntaxError. Returns [err, pat]; err = "" on success.
parsePattern(s) ==
  IF s = <<>> THEN ParseError("empty pattern")
  ELSE IF IndexSpace(s) > 0
  THEN parseFrom(s, SubSeq(s, 1, IndexSpace(s) - 1), TrimLeft(From(s, IndexSpace(s) + 1)))
  ELSE parseFrom(s, <<>>, s)

lastSegment(pat) == pat.segments[Len(pat.segments)]

\* ------------------------------------------------------------------------
\* Conflict detector
\* ------------------------------------------------------------------------

\* The relationship of the sets of requests two patterns match:
\* "equivalent", "moreGeneral", "moreSpecific", "disjoint", "overlaps".
inverseRelationship(r) ==
  IF r = "moreSpecific" THEN "moreGeneral"
  ELSE IF r = "moreGeneral" THEN "moreSpecific" ELSE r

\* Two independent dimensions (method and path) combine to "overlaps" when
\* one says more general and the other more specific.
combineRelationships(r1, r2) ==
  IF r1 = "equivalent" THEN r2
  ELSE IF r1 = "disjoint" \/ r2 = "disjoint" THEN "disjoint"
  ELSE IF r1 = "overlaps" THEN "overlaps"
  ELSE IF r2 = "equivalent" THEN r1
  ELSE IF r2 = inverseRelationship(r1) THEN "overlaps"
  ELSE r2

\* Along the path the segments are read left to right: the leftmost position
\* where the two patterns differ decides which is more specific, and a later
\* position can only make them disjoint.
combineLeftToRight(r1, r2) ==
  IF r1 = "equivalent" THEN r2
  ELSE IF r1 = "disjoint" \/ r2 = "disjoint" THEN "disjoint"
  ELSE r1

compareMethods(p1, p2) ==
  IF p1.method = p2.method THEN "equivalent"
  ELSE IF p1.method = "" THEN "moreGeneral"
  ELSE IF p2.method = "" THEN "moreSpecific"
  ELSE IF p1.method = "GET" /\ p2.method = "HEAD" THEN "moreGeneral"
  ELSE IF p1.method = "HEAD" /\ p2.method = "GET" THEN "moreSpecific"
  ELSE "disjoint"

compareSegments(s1, s2) ==
  IF s1.multi /\ s2.multi THEN "equivalent"
  ELSE IF s1.multi THEN "moreGeneral"
  ELSE IF s2.multi THEN "moreSpecific"
  ELSE IF s1.wild /\ s2.wild THEN "equivalent"
  ELSE IF s1.wild THEN (IF s2.s = "/" THEN "disjoint" ELSE "moreGeneral")
  ELSE IF s2.wild THEN (IF s1.s = "/" THEN "disjoint" ELSE "moreSpecific")
  ELSE IF s1.s = s2.s THEN "equivalent"
  ELSE "disjoint"

\* The relationship of the corresponding segments from position i on.
RECURSIVE compareSegmentsFrom(_, _, _, _)
compareSegmentsFrom(segs1, segs2, i, rel) ==
  IF rel = "disjoint" THEN rel
  ELSE IF i > Len(segs1) /\ i > Len(segs2) THEN rel
  ELSE IF i > Len(segs1)
  THEN IF segs1[Len(segs1)].multi THEN combineLeftToRight(rel, "moreGeneral")
       ELSE "disjoint"
  ELSE IF i > Len(segs2)
  THEN IF segs2[Len(segs2)].multi THEN combineLeftToRight(rel, "moreSpecific")
       ELSE "disjoint"
  ELSE compareSegmentsFrom(segs1, segs2, i + 1,
         combineLeftToRight(rel, compareSegments(segs1[i], segs2[i])))

comparePaths(p1, p2) ==
  IF /\ Len(p1.segments) # Len(p2.segments)
     /\ ~lastSegment(p1).multi
     /\ ~lastSegment(p2).multi
  THEN "disjoint"
  ELSE compareSegmentsFrom(p1.segments, p2.segments, 1, "equivalent")

comparePathsAndMethods(p1, p2) ==
  LET mrel == compareMethods(p1, p2) IN
  IF mrel = "disjoint" THEN "disjoint"
  ELSE combineRelationships(mrel, comparePaths(p1, p2))

\* A faulty conflictsWith, under which C7 does not hold: only patterns that match the
\* same requests conflict.
conflictsWith_onlyDuplicates(p1, p2) ==
  IF p1.host # p2.host THEN FALSE
  ELSE comparePathsAndMethods(p1, p2) = "equivalent"

\* A pattern with a host takes precedence over one without, and two different
\* hosts match no common request: only patterns of one host can conflict.
conflictsWith(p1, p2) ==
  IF p1.host # p2.host THEN FALSE
  ELSE comparePathsAndMethods(p1, p2) \in {"equivalent", "overlaps"}

\* ------------------------------------------------------------------------
\* Routing index
\* ------------------------------------------------------------------------

\* The zero routingIndex.
EmptyIndex == [segments |-> <<>>, multis |-> <<>>]

\* routingIndexKey{pos, s}: s is the literal, or empty for a wildcard.
routingIndexKey(pos, seg) == <<pos, IF seg.wild THEN "" ELSE seg.s>>

\* A faulty addPattern, under which C11 does not hold: a wildcard is recorded
\* under its name.
indexAddPattern_keyedByName(idx, pat) ==
  IF lastSegment(pat).multi
  THEN [idx EXCEPT !.multis = Append(@, pat)]
  ELSE LET keys == {<<i - 1, pat.segments[i].s>> : i \in 1..Len(pat.segments)}
           old(k) == IF k \in DOMAIN idx.segments THEN idx.segments[k] ELSE <<>>
       IN [idx EXCEPT !.segments =
             [k \in (DOMAIN idx.segments) \cup keys |->
                IF k \in keys THEN Append(old(k), pat) ELSE idx.segments[k]]]

indexAddPattern(idx, pat) ==
  IF lastSegment(pat).multi
  THEN [idx EXCEPT !.multis = Append(@, pat)]
  ELSE LET keys == {routingIndexKey(i - 1, pat.segments[i]) : i \in 1..Len(pat.segments)}
           old(k) == IF k \in DOMAIN idx.segments THEN idx.segments[k] ELSE <<>>
       IN [idx EXCEPT !.segments =
             [k \in (DOMAIN idx.segments) \cup keys |->
                IF k \in keys THEN Append(old(k), pat) ELSE idx.segments[k]]]

Range(f) == {f[x] : x \in DOMAIN f}

\* The patterns recorded under (pos, s).
Bucket(idx, pos, s) ==
  IF <<pos, s>> \in DOMAIN idx.segments THEN Range(idx.segments[<<pos, s>>]) ELSE {}

\* Every pattern the index holds.
IndexPatterns(idx) ==
  Range(idx.multis) \cup UNION {Range(idx.segments[k]) : k \in DOMAIN idx.segments}

\* The patterns that could conflict with pat: those that, at every position
\* where pat has a literal, have that literal or a wildcard, and every
\* pattern that ends in a multi wildcard.
possiblyConflictingPatterns(idx, pat) ==
  LET lits == {i \in 1..Len(pat.segments) : ~pat.segments[i].wild}
      indexed == UNION {Range(idx.segments[k]) : k \in DOMAIN idx.segments}
  IN Range(idx.multis) \cup
     {q \in indexed :
        \A i \in lits : q \in Bucket(idx, i - 1, pat.segments[i].s)
                               \cup Bucket(idx, i - 1, "")}

\* ------------------------------------------------------------------------
\* Routing tree
\* ------------------------------------------------------------------------

\* A node is named by the keys on the way to it from the root: the host, the
\* method, then one key per segment ("" for a single wildcard, the literal
\* otherwise). The multi child of a node is kept under a key no segment can
\* have.
MultiKey == "/*"

NoHandler == "nil"

\* The fields of a node that no pattern ends at.
NoLeaf == [pattern |-> NoPattern, handler |-> NoHandler]

\* The zero routingNode: a root without children.
EmptyTree == (<<>> :> NoLeaf)

segmentKey(seg) == IF seg.multi THEN MultiKey ELSE IF seg.wild THEN "" ELSE seg.s

\* The node a pattern ends at.
patternNode(pat) ==
  <<pat.host, pat.method>> \o [i \in 1..Len(pat.segments) |-> segmentKey(pat.segments[i])]

\* set panics when the node already holds a pattern; a multi child is
\* replaced without a look.
addPatternPanics(tr, pat) ==
  /\ ~lastSegment(pat).multi
  /\ patternNode(pat) \in DOMAIN tr
  /\ tr[patternNode(pat)] # NoLeaf

treeAddPattern(tr, pat, h) ==
  LET n     == patternNode(pat)
      nodes == {SubSeq(n, 1, k) : k \in 0..Len(n)}
  IN [m \in (DOMAIN tr) \cup nodes |->
        IF m = n THEN [pattern |-> pat, handler |-> h]
        ELSE IF m \in DOMAIN tr THEN tr[m] ELSE NoLeaf]

\* The result of a lookup that found nothing (a nil node).
NilNode ==
  [found |-> FALSE, node |-> <<>>, pattern |-> NoPattern, handler |-> NoHandler,
   matches |-> <<>>]

\* A node a pattern ends at, with the wildcard matches on the way to it.
FoundNode(tr, n, matches) ==
  [found |-> TRUE, node |-> n, pattern |-> tr[n].pattern, handler |-> tr[n].handler,
   matches |-> matches]

\* firstSegment splits path into its first segment and the rest. The path
\* begins with "/"; a path of only a slash gives ("/", "").
firstSegment(path) ==
  IF path = <<"/">> THEN [seg |-> "/", rest |-> <<>>]
  ELSE LET p  == Tail(path)
           i0 == IndexByte(p, "/")
           i  == IF i0 = 0 THEN Len(p) + 1 ELSE i0
       IN [seg |-> Text(SubSeq(p, 1, i - 1)), rest |-> From(p, i)]

\* The first of two lookups that found a node: the second lookup is made
\* only when the first found none.
firstFound(a, b) == IF a.found THEN a ELSE b

\* The multi child c of a node, which matches the rest of the path.
matchMulti(tr, c, path, matches) ==
  IF c \in DOMAIN tr
  THEN FoundNode(tr, c, IF lastSegment(tr[c].pattern).s # ""
                        THEN Append(matches, Text(Tail(path)))
                        ELSE matches)
  ELSE NilNode

\* A faulty matchPath, under which C8 does not hold: the single wildcard child is tried
\* before the literal child.
RECURSIVE matchPath_wildcardFirst(_, _, _, _)
matchPath_wildcardFirst(tr, n, path, matches) ==
  IF n \notin DOMAIN tr THEN NilNode
  ELSE IF path = <<>>
  THEN IF tr[n] = NoLeaf THEN NilNode ELSE FoundNode(tr, n, matches)
  ELSE
  firstFound(
    IF firstSegment(path).seg # "/"
    THEN matchPath_wildcardFirst(tr, Append(n, ""), firstSegment(path).rest,
                                 Append(matches, firstSegment(path).seg))
    ELSE NilNode,
    firstFound(
      matchPath_wildcardFirst(tr, Append(n, firstSegment(path).seg),
                              firstSegment(path).rest, matches),
      matchMulti(tr, Append(n, MultiKey), path, matches)))

\* matchPath: a literal child first, then the single wildcard child, then
\* the multi child, each tried only when the one before found nothing.
RECURSIVE matchPath(_, _, _, _)
matchPath(tr, n, path, matches) ==
  IF n \notin DOMAIN tr THEN NilNode
  ELSE IF path = <<>>
  THEN IF tr[n] = NoLeaf THEN NilNode ELSE FoundNode(tr, n, matches)
  ELSE
  firstFound(
    matchPath(tr, Append(n, firstSegment(path).seg), firstSegment(path).rest, matches),
    firstFound(
      IF firstSegment(path).seg # "/"
      THEN matchPath(tr, Append(n, ""), firstSegment(path).rest,
                     Append(matches, firstSegment(path).seg))
      ELSE NilNode,
      matchMulti(tr, Append(n, MultiKey), path, matches)))

matchMethodAndPath(tr, n, method, path) ==
  IF n \notin DOMAIN tr THEN NilNode
  ELSE
  firstFound(
    matchPath(tr, Append(n, method), path, <<>>),
    firstFound(
      IF method = "HEAD" THEN matchPath(tr, Append(n, "GET"), path, <<>>) ELSE NilNode,
      matchPath(tr, Append(n, ""), path, <<>>)))

\* A faulty match, under which C9 does not hold: the patterns of the host are not
\* looked at.
match_withoutHostPatterns(tr, host, method, path) ==
  matchMethodAndPath(tr, <<"">>, method, path)

\* match(host, method, path): the patterns of the host first, then those
\* without a host.
match(tr, host, method, path) ==
  firstFound(
    IF host # "" THEN matchMethodAndPath(tr, <<host>>, method, path) ELSE NilNode,
    matchMethodAndPath(tr, <<"">>, method, path))

\* The methods of the method children of n under which path matches. The
\* empty child (patterns without a method) is not looked at.
matchingMethodsPath(tr, n, path) ==
  IF n \notin DOMAIN tr THEN {}
  ELSE {m \in {k[Len(n) + 1] : k \in {x \in DOMAIN tr : Len(x) = Len(n) + 1
                                                      /\ SubSeq(x, 1, Len(n)) = n}} :
          m # "" /\ matchPath(tr, Append(n, m), path, <<>>).found}

treeMatchingMethods(tr, host, path) ==
  LET set == (IF host # "" THEN matchingMethodsPath(tr, <<host>>, path) ELSE {})
             \cup matchingMethodsPath(tr, <<"">>, path)
  IN IF "GET" \in set THEN set \cup {"HEAD"} ELSE set

\* ------------------------------------------------------------------------
\* ServeMux: lookups
\* ------------------------------------------------------------------------

\* exactMatch reports whether the node's pattern exactly matches the path.
\* As a special case, if the node is nil, exactMatch returns false.
\* A faulty exactMatch, under which C12 does not hold: the slashes of the
\* path are not counted.
exactMatch_anyTrailingSlash(n, path) ==
  IF ~n.found THEN FALSE
  ELSE IF ~lastSegment(n.pattern).multi THEN TRUE
  ELSE ~(Len(path) > 0 /\ path[Len(path)] # "/")

exactMatch(n, path) ==
  IF ~n.found THEN FALSE
  ELSE IF ~lastSegment(n.pattern).multi THEN TRUE
  ELSE IF Len(path) > 0 /\ path[Len(path)] # "/" THEN FALSE
  ELSE Len(n.pattern.segments) = Count(path, "/")

\* A nil *url.URL, and the URL of a request (its path; the query is carried
\* along unchanged and left out).
NilURL == [nil |-> TRUE, Path |-> <<>>]

URL(path) == [nil |-> FALSE, Path |-> path]

NoRedirect(n) == [n |-> n, redirect |-> FALSE, redirectTo |-> <<>>]

\* A faulty triesTrailingSlash, under which C4 does not hold: the second match is also
\* made when the first one is exact.
triesTrailingSlash_always(n, path, u) ==
  ~u.nil /\ ~HasSuffixSlash(path)

\* Whether matchOrRedirect tries the match again with a slash appended.
triesTrailingSlash(n, path, u) ==
  ~exactMatch(n, path) /\ ~u.nil /\ ~HasSuffixSlash(path)

\* A faulty afterTrailingSlash, under which C5 does not hold: any second match
\* redirects, exact or not.
afterTrailingSlash_anyMatch(n, n2, path, u) ==
  IF n2.found
  THEN [n |-> NilNode, redirect |-> TRUE, redirectTo |-> cleanPath(u.Path) \o <<"/">>]
  ELSE NoRedirect(n)

\* The outcome of matchOrRedirect once the second match n2 is known.
afterTrailingSlash(n, n2, path, u) ==
  IF exactMatch(n2, path \o <<"/">>)
  THEN [n |-> NilNode, redirect |-> TRUE, redirectTo |-> cleanPath(u.Path) \o <<"/">>]
  ELSE NoRedirect(n)

\* The outcome of matchOrRedirect for the first match n and the second match
\* n2, which is made only when it is tried.
withTrailingSlash(n, n2, path, u) ==
  IF triesTrailingSlash(n, path, u)
  THEN afterTrailingSlash(n, n2, path, u)
  ELSE NoRedirect(n)

\* matchOrRedirect looks up a node in the tree that matches the host, method
\* and path, both matches made on one tree (the read lock is held).
matchOrRedirect(tr, host, method, path, u) ==
  withTrailingSlash(match(tr, host, method, path),
                    match(tr, host, method, path \o <<"/">>), path, u)

\* A faulty matchingMethods, under which C10 does not hold: the path with a slash
\* appended is not looked up.
matchingMethods_onePath(tr, host, path) ==
  treeMatchingMethods(tr, host, path)

\* matchingMethods returns all methods that would match with the given host
\* and path (a sorted list without repetition in the code: a set here).
matchingMethods(tr, host, path) ==
  treeMatchingMethods(tr, host, path)
  \cup (IF ~HasSuffixSlash(path)
        THEN treeMatchingMethods(tr, host, path \o <<"/">>)
        ELSE {})

\* A request: r.Method, r.Host, r.URL.Host and r.URL.EscapedPath(), which is
\* also r.URL.Path as no path of the model holds an escape.
Request(method, host, urlHost, path) ==
  [Method |-> method, Host |-> host, URLHost |-> urlHost, Path |-> path]

\* What findHandler returns: a registered handler, a redirect, the method not
\* allowed handler with its Allow set, or the not found handler.
Found(n) ==
  [kind |-> "handler", handler |-> n.handler, patStr |-> n.pattern.str,
   to |-> <<>>, allow |-> {}, matches |-> n.matches]

Redirect(to, patStr) ==
  [kind |-> "redirect", handler |-> NoHandler, patStr |-> patStr,
   to |-> to, allow |-> {}, matches |-> <<>>]

MethodNotAllowed(allowed) ==
  [kind |-> "notAllowed", handler |-> NoHandler, patStr |-> <<>>,
   to |-> <<>>, allow |-> allowed, matches |-> <<>>]

NotFound ==
  [kind |-> "notFound", handler |-> NoHandler, patStr |-> <<>>,
   to |-> <<>>, allow |-> {}, matches |-> <<>>]

\* The host and path findHandler matches with.
matchHost(r) ==
  IF r.Method = "CONNECT" THEN Text(r.URLHost) ELSE Text(stripHostPort(r.Host))

matchPathOf(r) == IF r.Method = "CONNECT" THEN r.Path ELSE cleanPath(r.Path)

\* The end of findHandler, once no redirect was returned: n is the node of
\* the primary match and allowed what the methods query returned for it.
noRoute(allowed) ==
  IF allowed # {} THEN MethodNotAllowed(allowed) ELSE NotFound

\* findHandler for a CONNECT request: m1 is what matchOrRedirect returns for
\* the host of the URL, m2 what it returns for the host of the request, and
\* allowed what matchingMethods returns (called only when it is needed).
findHandlerConnect(m1, m2, allowed) ==
  IF m1.redirect THEN Redirect(m1.redirectTo, m1.redirectTo)
  ELSE IF m2.n.found THEN Found(m2.n)
  ELSE noRoute(allowed)

\* findHandler for any other request: path is the cleaned path and m what
\* matchOrRedirect returns for it.
findHandlerPath(r, path, m, allowed) ==
  IF m.redirect THEN Redirect(m.redirectTo, m.redirectTo)
  ELSE IF path # r.Path
  THEN Redirect(path, IF m.n.found THEN m.n.pattern.str ELSE <<>>)
  ELSE IF m.n.found THEN Found(m.n)
  ELSE noRoute(allowed)

\* findHandler on one tree: what it returns when no register runs between
\* its lock acquisitions.
findHandler(tr, r) ==
  IF r.Method = "CONNECT"
  THEN findHandlerConnect(
         matchOrRedirect(tr, Text(r.URLHost), r.Method, r.Path, URL(r.Path)),
         matchOrRedirect(tr, Text(r.Host), r.Method, r.Path, NilURL),
         matchingMethods(tr, Text(r.URLHost), r.Path))
  ELSE findHandlerPath(
         r, cleanPath(r.Path),
         matchOrRedirect(tr, Text(stripHostPort(r.Host)), r.Method,
                         cleanPath(r.Path), URL(r.Path)),
         matchingMethods(tr, Text(stripHostPort(r.Host)), cleanPath(r.Path)))

\* ------------------------------------------------------------------------
\* ServeMux: registration
\* ------------------------------------------------------------------------

\* The error registerErr makes of an error of the parser.
parsingError(r) ==
  IF r.err # "" THEN ParseError("parsing: " \o r.err) ELSE r

\* The checks of registerErr made before the lock is taken: the error, or ""
\* with the parsed pattern.
registerArgs(patstr, handler) ==
  IF patstr = <<>> THEN ParseError("http: invalid pattern")
  ELSE IF handler = "nil" THEN ParseError("http: nil handler")
  ELSE IF handler = "nilFunc" THEN ParseError("http: nil handler")
  ELSE parsingError(parsePattern(patstr))

\* A faulty conflict check, under which C6 does not hold: every pattern the index
\* proposes counts as a conflict.
conflicts_anyCandidate(idx, pat) ==
  possiblyConflictingPatterns(idx, pat) # {}

\* The conflict check made under the lock.
conflicts(idx, pat) ==
  \E pat2 \in possiblyConflictingPatterns(idx, pat) : conflictsWith(pat, pat2)

\* A faulty registerChecked, under which C1 does not hold: the pattern is
\* added to the tree before the conflict check.
registerChecked_insertsBeforeCheck(tr, idx, handler, a) ==
  IF a.err # "" THEN [err |-> a.err, tree |-> tr, index |-> idx]
  ELSE IF addPatternPanics(tr, a.pat)
  THEN [err |-> "panic: non-nil leaf fields", tree |-> tr, index |-> idx]
  ELSE IF conflicts(idx, a.pat)
  THEN [err |-> "conflict", tree |-> treeAddPattern(tr, a.pat, handler), index |-> idx]
  ELSE [err |-> "", tree |-> treeAddPattern(tr, a.pat, handler),
        index |-> indexAddPattern(idx, a.pat)]

\* registerErr from the lock on, a being what the checks made before it
\* returned.
registerChecked(tr, idx, handler, a) ==
  IF a.err # "" THEN [err |-> a.err, tree |-> tr, index |-> idx]
  ELSE IF conflicts(idx, a.pat) THEN [err |-> "conflict", tree |-> tr, index |-> idx]
  ELSE IF addPatternPanics(tr, a.pat)
  THEN [err |-> "panic: non-nil leaf fields", tree |-> tr, index |-> idx]
  ELSE [err |-> "", tree |-> treeAddPattern(tr, a.pat, handler),
        index |-> indexAddPattern(idx, a.pat)]

\* registerErr as a whole: the error ("" for nil) and the tree and index it
\* leaves.
registerErr(tr, idx, patstr, handler) ==
  registerChecked(tr, idx, handler, registerArgs(patstr, handler))

\* ------------------------------------------------------------------------
\* Inputs
\* ------------------------------------------------------------------------

\* Pattern strings passed to Handle and HandleFunc.
PatImagesSlash == <<"/","i","m","a","g","e","s","/">>
PatImages      == <<"/","i","m","a","g","e","s">>
PatAB          == <<"/","a","/","{","b","}">>
PatCD          == <<"/","{","c","}","/","d">>
PatA           == <<"/","a">>
PatGetRoot     == <<"G","E","T"," ","/">>
PatIndex       == <<"/","i","n","d","e","x",".","h","t","m","l">>
PatGetX        == <<"G","E","T"," ","/","x">>
PatGetXSlash   == <<"G","E","T"," ","/","x","/">>
PatHostA       == <<"h","/","a">>
PatHostImages  == <<"h","/","i","m","a","g","e","s","/">>
PatEmpty       == <<>>
PatBadWildcard == <<"/","a","{","x","}">>
PatMultiInside == <<"/","{","x",".",".",".","}","/","a">>

\* Patterns that differ in single segments, registered to compare the
\* conflict check through the index with the check of every pair.
PatAD      == <<"/","a","/","d">>
PatXD      == <<"/","x","/","d">>
PatAX      == <<"/","a","/","{","x","}">>
PatGetAB   == <<"G","E","T"," ","/","a","/","{","b","}">>
PatADollar == <<"/","a","/","{","$","}">>
PatASlash  == <<"/","a","/">>

IndexedPatterns ==
  {PatA, PatAB, PatCD, PatAD, PatXD, PatAX, PatGetAB, PatADollar, PatASlash}

\* Patterns and paths exactMatch is called with.
PatRoot       == <<"/">>
PatRootDollar == <<"/","{","$","}">>
PatAMulti     == <<"/","a","/","{","x",".",".",".","}">>
PatC          == <<"/","{","c","}">>

ExactPatterns ==
  {PatRoot, PatRootDollar, PatA, PatC, PatASlash, PatADollar, PatAMulti, PatAB,
   PatAD, PatCD, PatImagesSlash, PatImages}

PathASlash     == <<"/","a","/">>
PathADSlash    == <<"/","a","/","d","/">>
PathASlashes   == <<"/","a","/","/">>

ExactPaths ==
  {<<"/">>, <<"/","a">>, PathASlash, <<"/","a","/","d">>, PathADSlash, PathASlashes,
   <<"/","x">>, <<"/","x","/","d">>, <<"/","i","m","a","g","e","s">>,
   <<"/","i","m","a","g","e","s","/">>,
   <<"/","i","m","a","g","e","s","/","t","h","u","m","b">>}

ValidPatterns ==
  {PatImagesSlash, PatImages, PatAB, PatCD, PatA, PatGetRoot, PatIndex,
   PatGetX, PatGetXSlash, PatHostA, PatHostImages}

PatternStrings == ValidPatterns \cup {PatEmpty, PatBadWildcard, PatMultiInside}

\* The calls of Handle and HandleFunc: every valid pattern with a handler,
\* the malformed patterns, and a nil Handler and a nil HandlerFunc.
RegisterCalls ==
  {<<s, "h1">> : s \in PatternStrings} \cup {<<PatA, "nil">>, <<PatA, "nilFunc">>}

\* Request paths.
PathImages      == <<"/","i","m","a","g","e","s">>
PathImagesSlash == <<"/","i","m","a","g","e","s","/">>
PathThumb       == <<"/","i","m","a","g","e","s","/","t","h","u","m","b">>
PathAD          == <<"/","a","/","d">>
PathXD          == <<"/","x","/","d">>
PathAX          == <<"/","a","/","x">>
PathA           == <<"/","a">>
PathX           == <<"/","x">>
PathIndex       == <<"/","i","n","d","e","x",".","h","t","m","l">>
PathXSlash      == <<"/","x","/">>
PathRoot        == <<"/">>
PathUnclean     == <<"/","a","/","/","d">>

CleanPaths ==
  {PathImages, PathImagesSlash, PathThumb, PathAD, PathXD, PathAX, PathA,
   PathX, PathXSlash, PathIndex, PathRoot}

HostNone == <<>>
HostH    == <<"h">>
HostPort == <<"h",":","8","0">>

Requests ==
  {Request(m, HostNone, HostNone, p) : m \in {"GET", "POST"}, p \in CleanPaths}
  \cup {Request("HEAD", HostNone, HostNone, p) : p \in {PathX, PathRoot}}
  \cup {Request("GET", h, HostNone, p) : h \in {HostH, HostPort},
                                         p \in {PathA, PathImages, PathThumb}}
  \cup {Request("GET", HostNone, HostNone, PathUnclean)}
  \cup {Request("CONNECT", hs[1], hs[2], p) :
          hs \in {<<HostNone, HostNone>>, <<HostH, HostNone>>, <<HostNone, HostH>>},
          p \in {PathImages, PathA}}

\* The patterns and requests of the runs with several goroutines.
ConcRegisterCalls ==
  [g1 |-> {<<PatGetX, "h1">>, <<PatGetXSlash, "h1">>},
   g2 |-> {<<PatGetX, "h1">>, <<PatEmpty, "h1">>}]

ConcRequests ==
  {Request("GET", HostNone, HostNone, PathX),
   Request("CONNECT", HostNone, HostNone, PathX)}

\* The number of patterns a mux holds at most when calls run one at a time.
MaxPatterns == 2

\* ------------------------------------------------------------------------
\* State
\* ------------------------------------------------------------------------

\* Goroutines calling into the mux.
Procs == {"g1", "g2", "g3"}

VARIABLES
  tree,    \* mux.tree
  index,   \* mux.index
  mu,      \* mux.mu: [writer: whether the lock is held, readers: read locks held]
  pc,      \* where each goroutine is in its call ("idle": in no call)
  call,    \* the arguments and locals of each goroutine's running call
  ret      \* the last call each goroutine returned from, and what it returned

vars == <<tree, index, mu, pc, call, ret>>

\* The patterns the tree holds.
TreePatterns(tr) == {tr[n].pattern : n \in {m \in DOMAIN tr : tr[m] # NoLeaf}}

\* The pattern strings a tree holds.
Registered(tr) == {q.str : q \in TreePatterns(tr)}

NoRequest == Request("", <<>>, <<>>, <<>>)

\* The locals of a call. Two of them are kept for the claims only: prior, the
\* pattern strings the index held when register made its conflict check, and
\* seen, the pattern strings the tree held at each read lock findHandler took.
NoCall ==
  [patstr |-> <<>>, handler |-> "nil", pat |-> NoPattern, err |-> "", prior |-> {},
   req |-> NoRequest, phase |-> 0, host |-> "", mhost |-> "", path |-> <<>>,
   url |-> NilURL, n |-> NilNode, out |-> NoRedirect(NilNode), allowed |-> {},
   seen |-> <<>>]

NoRet ==
  [op |-> "none", patstr |-> <<>>, handler |-> "nil", err |-> "", prior |-> {},
   req |-> NoRequest, resp |-> NotFound, seen |-> <<>>, exact |-> FALSE]

\* What exactMatch returned for the node of a pattern (no node when the
\* pattern string is empty) and a path.
ExactMatchRet(patstr, path, exact) ==
  [NoRet EXCEPT !.op = "exactMatch", !.patstr = patstr,
                !.req = Request("", <<>>, <<>>, path), !.exact = exact]

RegisterRet(patstr, handler, err, prior) ==
  [NoRet EXCEPT !.op = "register", !.patstr = patstr, !.handler = handler,
                !.err = err, !.prior = prior]

FindHandlerRet(r, resp, seen) ==
  [NoRet EXCEPT !.op = "findHandler", !.req = r, !.resp = resp, !.seen = seen]

Init ==
  /\ tree = EmptyTree
  /\ index = EmptyIndex
  /\ mu = [writer |-> FALSE, readers |-> 0]
  /\ pc = [p \in Procs |-> "idle"]
  /\ call = [p \in Procs |-> NoCall]
  /\ ret = [p \in Procs |-> NoRet]

\* A faulty Lock, under which C2 does not hold: it does not wait for the
\* readers.
canLock_amongReaders(m) == ~m.writer

\* sync.RWMutex: Lock waits until no goroutine holds the lock, RLock until no
\* writer holds it.
canLock(m) == ~m.writer /\ m.readers = 0

\* A faulty RLock, under which C3 does not hold: it does not wait for the writer.
canRLock_withoutWaiting(m) == TRUE

canRLock(m) == ~m.writer

\* ------------------------------------------------------------------------
\* One goroutine: every call runs from its start to its return before the
\* next one starts.
\* ------------------------------------------------------------------------

\* Handle / HandleFunc, from the call to its return (or its panic with err).
Register(p, patstr, handler) ==
  /\ \A q \in Procs : pc[q] = "idle"
  /\ canLock(mu)
  /\ Cardinality(TreePatterns(tree)) < MaxPatterns
  /\ LET r == registerErr(tree, index, patstr, handler) IN
       /\ tree' = r.tree
       /\ index' = r.index
       /\ ret' = [ret EXCEPT ![p] =
            RegisterRet(patstr, handler, r.err,
                        IF registerArgs(patstr, handler).err = ""
                        THEN {q.str : q \in IndexPatterns(index)} ELSE {})]
  /\ UNCHANGED <<mu, pc, call>>

\* ServeHTTP's findHandler, from the call to its return.
FindHandler(p, r) ==
  /\ \A q \in Procs : pc[q] = "idle"
  /\ canRLock(mu)
  /\ ret' = [ret EXCEPT ![p] =
       FindHandlerRet(r, findHandler(tree, r), <<Registered(tree)>>)]
  /\ UNCHANGED <<tree, index, mu, pc, call>>

Next ==
  \/ \E c \in RegisterCalls : Register("g1", c[1], c[2])
  \/ \E r \in Requests : FindHandler("g1", r)

Spec == Init /\ [][Next]_vars

\* Handle on a mux that holds up to MaxPatterns patterns, from the call to its
\* return.
RegisterIndexed(p, patstr, handler) ==
  /\ \A q \in Procs : pc[q] = "idle"
  /\ canLock(mu)
  /\ Cardinality(TreePatterns(tree)) <= MaxPatterns
  /\ tree' = registerErr(tree, index, patstr, handler).tree
  /\ index' = registerErr(tree, index, patstr, handler).index
  /\ ret' = [ret EXCEPT ![p] =
       RegisterRet(patstr, handler, registerErr(tree, index, patstr, handler).err,
                   {q.str : q \in IndexPatterns(index)})]
  /\ UNCHANGED <<mu, pc, call>>

\* Registrations alone, of the patterns that differ in single segments.
NextIndex == \E s \in IndexedPatterns : RegisterIndexed("g1", s, "h1")

SpecIndex == Init /\ [][NextIndex]_vars

\* The node a lookup returns when it finds the pattern of a pattern string,
\* nil for the empty string.
NodeOf(patstr) ==
  IF patstr = <<>> THEN NilNode
  ELSE FoundNode(treeAddPattern(EmptyTree, parsePattern(patstr).pat, "h1"),
                 patternNode(parsePattern(patstr).pat), <<>>)

\* A call of exactMatch.
ExactMatch(p, patstr, path) ==
  /\ \A q \in Procs : pc[q] = "idle"
  /\ ret' = [ret EXCEPT ![p] = ExactMatchRet(patstr, path, exactMatch(NodeOf(patstr), path))]
  /\ UNCHANGED <<tree, index, mu, pc, call>>

\* Calls of exactMatch alone, with every pattern and path of the two sets.
NextExact ==
  \E s \in ExactPatterns \cup {PatEmpty}, path \in ExactPaths : ExactMatch("g1", s, path)

SpecExact == Init /\ [][NextExact]_vars

\* ------------------------------------------------------------------------
\* Several goroutines: register and findHandler step by step, a step being a
\* lock operation or the work done between two of them on the tree or the
\* index
\* ------------------------------------------------------------------------

\* registerErr up to mux.mu.Lock(): the arguments are checked and the pattern
\* parsed without the lock; an error returns at once.
RegBegin(p, patstr, handler) ==
  /\ pc[p] = "idle"
  /\ LET a == registerArgs(patstr, handler) IN
     IF a.err # ""
     THEN /\ ret' = [ret EXCEPT ![p] = RegisterRet(patstr, handler, a.err, {})]
          /\ UNCHANGED <<pc, call>>
     ELSE /\ call' = [call EXCEPT ![p] =
                 [NoCall EXCEPT !.patstr = patstr, !.handler = handler, !.pat = a.pat]]
          /\ pc' = [pc EXCEPT ![p] = "reg_lock"]
          /\ UNCHANGED ret
  /\ UNCHANGED <<tree, index, mu>>

\* mux.mu.Lock()
RegLock(p) ==
  /\ pc[p] = "reg_lock"
  /\ canLock(mu)
  /\ mu' = [mu EXCEPT !.writer = TRUE]
  /\ pc' = [pc EXCEPT ![p] = "reg_check"]
  /\ UNCHANGED <<tree, index, call, ret>>

\* The conflict check against the index.
RegCheck(p) ==
  /\ pc[p] = "reg_check"
  /\ LET bad == conflicts(index, call[p].pat) IN
     /\ call' = [call EXCEPT ![p].prior = {q.str : q \in IndexPatterns(index)},
                             ![p].err = IF bad THEN "conflict" ELSE ""]
     /\ pc' = [pc EXCEPT ![p] = IF bad THEN "reg_unlock" ELSE "reg_tree"]
  /\ UNCHANGED <<tree, index, mu, ret>>

\* mux.tree.addPattern(pat, handler)
RegAddTree(p) ==
  /\ pc[p] = "reg_tree"
  /\ IF addPatternPanics(tree, call[p].pat)
     THEN /\ call' = [call EXCEPT ![p].err = "panic: non-nil leaf fields"]
          /\ pc' = [pc EXCEPT ![p] = "reg_unlock"]
          /\ UNCHANGED tree
     ELSE /\ tree' = treeAddPattern(tree, call[p].pat, call[p].handler)
          /\ pc' = [pc EXCEPT ![p] = "reg_index"]
          /\ UNCHANGED call
  /\ UNCHANGED <<index, mu, ret>>

\* mux.index.addPattern(pat)
RegAddIndex(p) ==
  /\ pc[p] = "reg_index"
  /\ index' = indexAddPattern(index, call[p].pat)
  /\ pc' = [pc EXCEPT ![p] = "reg_unlock"]
  /\ UNCHANGED <<tree, mu, call, ret>>

\* The deferred mux.mu.Unlock() and the return.
RegUnlock(p) ==
  /\ pc[p] = "reg_unlock"
  /\ mu' = [mu EXCEPT !.writer = FALSE]
  /\ ret' = [ret EXCEPT ![p] =
       RegisterRet(call[p].patstr, call[p].handler, call[p].err, call[p].prior)]
  /\ call' = [call EXCEPT ![p] = NoCall]
  /\ pc' = [pc EXCEPT ![p] = "idle"]
  /\ UNCHANGED <<tree, index>>

\* findHandler up to its first call of matchOrRedirect.
FhBegin(p, r) ==
  /\ pc[p] = "idle"
  /\ call' = [call EXCEPT ![p] =
       [NoCall EXCEPT !.req = r, !.phase = 1, !.host = matchHost(r),
                      !.mhost = matchHost(r), !.path = matchPathOf(r),
                      !.url = URL(r.Path)]]
  /\ pc' = [pc EXCEPT ![p] = "mor_rlock"]
  /\ UNCHANGED <<tree, index, mu, ret>>

\* matchOrRedirect: mux.mu.RLock()
MorRLock(p) ==
  /\ pc[p] = "mor_rlock"
  /\ canRLock(mu)
  /\ mu' = [mu EXCEPT !.readers = @ + 1]
  /\ pc' = [pc EXCEPT ![p] = "mor_match"]
  /\ UNCHANGED <<tree, index, call, ret>>

\* matchOrRedirect: the match for the path.
MorMatch(p) ==
  /\ pc[p] = "mor_match"
  /\ LET c == call[p]
         n == match(tree, c.mhost, c.req.Method, c.path)
         again == triesTrailingSlash(n, c.path, c.url)
     IN /\ call' = [call EXCEPT ![p].n = n,
                                ![p].out = NoRedirect(n),
                                ![p].seen = Append(@, Registered(tree))]
        /\ pc' = [pc EXCEPT ![p] = IF again THEN "mor_slash" ELSE "mor_runlock"]
  /\ UNCHANGED <<tree, index, mu, ret>>

\* matchOrRedirect: the match for the path with a slash appended.
MorMatchSlash(p) ==
  /\ pc[p] = "mor_slash"
  /\ LET c  == call[p]
         n2 == match(tree, c.mhost, c.req.Method, c.path \o <<"/">>)
     IN call' = [call EXCEPT ![p].out = afterTrailingSlash(c.n, n2, c.path, c.url)]
  /\ pc' = [pc EXCEPT ![p] = "mor_runlock"]
  /\ UNCHANGED <<tree, index, mu, ret>>

\* matchOrRedirect: the deferred mux.mu.RUnlock(), and findHandler up to its
\* return or its next lock.
MorRUnlock(p) ==
  /\ pc[p] = "mor_runlock"
  /\ mu' = [mu EXCEPT !.readers = @ - 1]
  /\ LET c == call[p]
         r == c.req
         Return(resp) ==
           /\ ret' = [ret EXCEPT ![p] = FindHandlerRet(r, resp, c.seen)]
           /\ call' = [call EXCEPT ![p] = NoCall]
           /\ pc' = [pc EXCEPT ![p] = "idle"]
     IN IF c.out.redirect THEN Return(Redirect(c.out.redirectTo, c.out.redirectTo))
        ELSE IF r.Method = "CONNECT" /\ c.phase = 1
        THEN /\ call' = [call EXCEPT ![p].phase = 2, ![p].mhost = Text(r.Host),
                                     ![p].url = NilURL]
             /\ pc' = [pc EXCEPT ![p] = "mor_rlock"]
             /\ UNCHANGED ret
        ELSE IF r.Method # "CONNECT" /\ c.path # r.Path
        THEN Return(Redirect(c.path, IF c.out.n.found THEN c.out.n.pattern.str
                                     ELSE <<>>))
        ELSE IF c.out.n.found THEN Return(Found(c.out.n))
        ELSE /\ pc' = [pc EXCEPT ![p] = "mm_rlock"]
             /\ UNCHANGED <<call, ret>>
  /\ UNCHANGED <<tree, index>>

\* matchingMethods: mux.mu.RLock()
MmRLock(p) ==
  /\ pc[p] = "mm_rlock"
  /\ canRLock(mu)
  /\ mu' = [mu EXCEPT !.readers = @ + 1]
  /\ pc' = [pc EXCEPT ![p] = "mm_walk"]
  /\ UNCHANGED <<tree, index, call, ret>>

\* matchingMethods: the methods that match the path.
MmWalk(p) ==
  /\ pc[p] = "mm_walk"
  /\ LET c == call[p] IN
     /\ call' = [call EXCEPT ![p].allowed = treeMatchingMethods(tree, c.host, c.path),
                             ![p].seen = Append(@, Registered(tree))]
     /\ pc' = [pc EXCEPT ![p] =
                 IF HasSuffixSlash(c.path) THEN "mm_runlock" ELSE "mm_slash"]
  /\ UNCHANGED <<tree, index, mu, ret>>

\* matchingMethods: the methods that match the path with a slash appended.
MmWalkSlash(p) ==
  /\ pc[p] = "mm_slash"
  /\ LET c == call[p] IN
     call' = [call EXCEPT ![p].allowed =
                @ \cup treeMatchingMethods(tree, c.host, c.path \o <<"/">>)]
  /\ pc' = [pc EXCEPT ![p] = "mm_runlock"]
  /\ UNCHANGED <<tree, index, mu, ret>>

\* matchingMethods: the deferred mux.mu.RUnlock(), and the return of
\* findHandler.
MmRUnlock(p) ==
  /\ pc[p] = "mm_runlock"
  /\ mu' = [mu EXCEPT !.readers = @ - 1]
  /\ ret' = [ret EXCEPT ![p] =
       FindHandlerRet(call[p].req, noRoute(call[p].allowed), call[p].seen)]
  /\ call' = [call EXCEPT ![p] = NoCall]
  /\ pc' = [pc EXCEPT ![p] = "idle"]
  /\ UNCHANGED <<tree, index>>

\* Two goroutines register patterns while a third serves requests.
NextConc ==
  \/ \E p \in {"g1", "g2"} :
       \/ \E c \in ConcRegisterCalls[p] : RegBegin(p, c[1], c[2])
       \/ RegLock(p)
       \/ RegCheck(p)
       \/ RegAddTree(p)
       \/ RegAddIndex(p)
       \/ RegUnlock(p)
  \/ \E p \in {"g3"} :
       \/ \E r \in ConcRequests : FhBegin(p, r)
       \/ MorRLock(p)
       \/ MorMatch(p)
       \/ MorMatchSlash(p)
       \/ MorRUnlock(p)
       \/ MmRLock(p)
       \/ MmWalk(p)
       \/ MmWalkSlash(p)
       \/ MmRUnlock(p)

SpecConc == Init /\ [][NextConc]_vars

\* ------------------------------------------------------------------------
\* What a pattern matches, as the documentation of ServeMux defines it
\* ------------------------------------------------------------------------

\* The segments of a request path; a trailing slash is the last segment "/".
RECURSIVE PathSegments(_)
PathSegments(path) ==
  IF path = <<>> THEN <<>>
  ELSE LET fs == firstSegment(path) IN <<fs.seg>> \o PathSegments(fs.rest)

\* A literal matches the equal segment, a wildcard one segment that is not
\* the trailing slash, a multi wildcard the remainder of the path, and {$}
\* the end of a path that ends in a slash.
RECURSIVE SegmentsMatch(_, _)
SegmentsMatch(segs, ps) ==
  IF segs = <<>> THEN ps = <<>>
  ELSE IF Head(segs).multi THEN ps # <<>>
  ELSE IF ps = <<>> THEN FALSE
  ELSE IF Head(segs).wild THEN Head(ps) # "/" /\ SegmentsMatch(Tail(segs), Tail(ps))
  ELSE Head(segs).s = Head(ps) /\ SegmentsMatch(Tail(segs), Tail(ps))

PathMatches(pat, path) == SegmentsMatch(pat.segments, PathSegments(path))

\* A pattern with no method matches every method, a pattern with the method
\* GET matches both GET and HEAD requests.
MethodMatches(pat, method) ==
  pat.method = "" \/ pat.method = method \/ (pat.method = "GET" /\ method = "HEAD")

\* A pattern with no host matches every host.
HostMatches(pat, host) == pat.host = "" \/ pat.host = host

PatternMatches(pat, host, method, path) ==
  HostMatches(pat, host) /\ MethodMatches(pat, method) /\ PathMatches(pat, path)

\* An inexact match is one where a multi wildcard matches a non-empty string:
\* the match is exact when the pattern has no multi wildcard, or when all that
\* is left of the path for it is the trailing slash.
ExactlyMatches(pat, path) ==
  /\ PathMatches(pat, path)
  /\ \/ ~lastSegment(pat).multi
     \/ LET ps == PathSegments(path) IN
        SubSeq(ps, Len(pat.segments), Len(ps)) = <<"/">>

\* The place of a pattern in the order of preference for a request: the host
\* first, then the method, then the segments from left to right (a literal
\* before a single wildcard before a multi wildcard).
Rank(pat, method) ==
  <<IF pat.host # "" THEN 0 ELSE 1,
    IF pat.method = method THEN 0 ELSE IF pat.method # "" THEN 1 ELSE 2>>
  \o [i \in 1..Len(pat.segments) |->
        IF pat.segments[i].multi THEN 2 ELSE IF pat.segments[i].wild THEN 1 ELSE 0]

\* Whether rank a comes before rank b, read from left to right.
Before(a, b) ==
  \E i \in 1..Len(a) :
    /\ i <= Len(b)
    /\ a[i] < b[i]
    /\ \A j \in 1..(i-1) : a[j] = b[j]

\* The registered patterns that match a request.
Matching(tr, host, method, path) ==
  {q \in TreePatterns(tr) : PatternMatches(q, host, method, path)}

\* Whether q is the first of the matching patterns.
IsFirst(q, tr, host, method, path) ==
  /\ q \in Matching(tr, host, method, path)
  /\ \A q2 \in Matching(tr, host, method, path) \ {q} :
       Before(Rank(q, method), Rank(q2, method))

\* The host the last match of findHandler is made with.
lastMatchHost(r) == IF r.Method = "CONNECT" THEN Text(r.Host) ELSE matchHost(r)

\* The goroutines that returned from a call of the operation.
Returned(op) == {p \in Procs : ret[p].op = op}

\* ------------------------------------------------------------------------
\* Claims
\* ------------------------------------------------------------------------

\* C1: a register call that fails (empty pattern string, nil handler, syntax
\* error, conflict) has no effect: the routing tree and the routing index are
\* after the call what they were before it.
C1_FailedRegisterHasNoEffect ==
  [][\A p \in Procs :
       (ret'[p] # ret[p] /\ ret'[p].op = "register" /\ ret'[p].err # "")
         => (tree' = tree /\ index' = index)]_vars

\* A register call failed with a conflict on a mux that holds a pattern.
C1_Witness ==
  \E p \in Returned("register") :
    ret[p].err = "conflict" /\ ret[p].patstr = PatIndex /\ Registered(tree) = {PatGetRoot}

\* Whether a goroutine is between Lock and Unlock, or between RLock and
\* RUnlock.
InWrite(p) == pc[p] \in {"reg_check", "reg_tree", "reg_index", "reg_unlock"}

InRead(p) ==
  pc[p] \in {"mor_match", "mor_slash", "mor_runlock", "mm_walk", "mm_slash", "mm_runlock"}

\* The prior sets against which the conflict checks of a goroutine's
\* successful registrations ran: that of the call it last returned from and
\* that of the call it is in.
PriorSets(p) ==
  (IF ret[p].op = "register" /\ ret[p].err = "" THEN {<<"ret", ret[p].prior>>} ELSE {})
  \cup (IF pc[p] \in {"reg_tree", "reg_index", "reg_unlock"} /\ call[p].err = ""
        THEN {<<"call", call[p].prior>>} ELSE {})

\* C2: under any interleaving of register and findHandler calls, the conflict
\* check and the two insertions of a register are one critical section that
\* excludes the readers and the other writers: at most one goroutine is in
\* it and none holds a read lock meanwhile, a reader that holds the read lock
\* finds the same patterns in the tree and in the index, no two successful
\* conflict checks ran against the same prior set, and whenever no writer
\* holds the lock the tree and the index hold the same patterns.
C2_RegisterIsOneCriticalSection ==
  /\ Cardinality({p \in Procs : InWrite(p)}) <= 1
  /\ mu.writer <=> \E p \in Procs : InWrite(p)
  /\ mu.readers = Cardinality({p \in Procs : InRead(p)})
  /\ (\E p \in Procs : InWrite(p)) => \A q \in Procs : ~InRead(q)
  /\ (\E p \in Procs : InRead(p)) => TreePatterns(tree) = IndexPatterns(index)
  /\ ~mu.writer => TreePatterns(tree) = IndexPatterns(index)
  /\ \A p, q \in Procs :
       \A a \in PriorSets(p), b \in PriorSets(q) :
         (<<p, a[1]>> # <<q, b[1]>>) => a[2] # b[2]

\* A writer has added its pattern to the tree and not yet to the index while
\* the other writer waits for the lock and the reader for the read lock.
C2_Witness ==
  /\ pc["g1"] = "reg_index"
  /\ TreePatterns(tree) # IndexPatterns(index)
  /\ pc["g2"] = "reg_lock"
  /\ pc["g3"] \in {"mor_rlock", "mm_rlock"}

\* The tree that holds the patterns of a set of pattern strings.
RECURSIVE TreeOf(_)
TreeOf(S) ==
  IF S = {} THEN EmptyTree
  ELSE LET s == CHOOSE x \in S : TRUE IN
       treeAddPattern(TreeOf(S \ {s}), parsePattern(s).pat, "h1")

\* Whether findHandler found the same patterns at every read lock it took.
OneSnapshot(seen) == \A i, j \in DOMAIN seen : seen[i] = seen[j]

\* C3 as stated: when the primary match finds no route, the primary match and
\* the methods query are made within one read-lock acquisition: no register
\* takes effect between them, and the allowed methods never hold a method that
\* would match the request itself.
C3_QueriesShareOneReadLock ==
  \A p \in Returned("findHandler") :
    ret[p].resp.kind \in {"notFound", "notAllowed"}
      => /\ OneSnapshot(ret[p].seen)
         /\ ret[p].req.Method \notin ret[p].resp.allow

\* C3, amended: the primary match (with its trailing-slash retry) and the
\* methods query (with its two lookups) are each made within a read-lock
\* acquisition of their own, each on one set of registered patterns, the later
\* set holding the earlier one; a register may take effect between them. When
\* none does, findHandler returns what it returns on that one set, and the
\* allowed methods do not hold the method of the request.
C3_EachQueryUnderItsOwnReadLock ==
  \A p \in Returned("findHandler") :
    LET r    == ret[p].req
        resp == ret[p].resp
        seen == ret[p].seen
        k    == Len(seen)
        host == matchHost(r)
        path == matchPathOf(r)
    IN /\ k >= 1
       /\ \A i, j \in DOMAIN seen : i <= j => seen[i] \subseteq seen[j]
       /\ OneSnapshot(seen) => resp = findHandler(TreeOf(seen[1]), r)
       /\ resp.kind \in {"notFound", "notAllowed"}
            => /\ k = IF r.Method = "CONNECT" THEN 3 ELSE 2
               /\ ~match(TreeOf(seen[k - 1]), lastMatchHost(r), r.Method, path).found
               /\ resp = noRoute(matchingMethods(TreeOf(seen[k]), host, path))
               /\ (OneSnapshot(seen) /\ lastMatchHost(r) = host)
                    => r.Method \notin resp.allow

\* A register took effect between the primary match and the methods query of
\* a request, and the allowed methods hold the method of the request.
C3_Witness ==
  \E p \in Returned("findHandler") :
    /\ ret[p].resp.kind = "notAllowed"
    /\ ~OneSnapshot(ret[p].seen)
    /\ ret[p].req.Method \in ret[p].resp.allow

\* The trailing-slash condition of a request: its path does not end in "/",
\* the match for the path is not an exact match, and the match for the path
\* with "/" appended is an exact match.
TrailingSlashCase(tr, r) ==
  LET host == matchHost(r)
      path == matchPathOf(r)
      n    == match(tr, host, r.Method, path)
      n2   == match(tr, host, r.Method, path \o <<"/">>)
  IN /\ ~HasSuffixSlash(path)
     /\ ~(n.found /\ ExactlyMatches(n.pattern, path))
     /\ n2.found /\ ExactlyMatches(n2.pattern, path \o <<"/">>)

\* C4: with trailing-slash redirection enabled, the outcome is a redirect to
\* path+"/" exactly when the path does not end in "/", its match is not exact
\* and the match for path+"/" is exact; in every other case the outcome is the
\* result of matching the original path. With only "/images/" registered,
\* /images is redirected to /images/, and registering "/images" as well
\* suppresses the redirect.
C4_TrailingSlashRedirect ==
  \A p \in Returned("findHandler") :
    LET r    == ret[p].req
        resp == ret[p].resp
        path == matchPathOf(r)
        n    == match(tree, lastMatchHost(r), r.Method, path)
    IN /\ TrailingSlashCase(tree, r)
            => (resp.kind = "redirect" /\ resp.to = path \o <<"/">>)
       /\ ~TrailingSlashCase(tree, r)
            => IF path # r.Path
               THEN resp = Redirect(path, n.pattern.str)
               ELSE IF n.found THEN resp = Found(n)
               ELSE resp.kind \in {"notFound", "notAllowed"}
       /\ (Registered(tree) = {PatImagesSlash} /\ r.Path = PathImages)
            => resp = Redirect(PathImagesSlash, PathImagesSlash)
       /\ (Registered(tree) = {PatImagesSlash, PatImages} /\ r.Path = PathImages)
            => (resp.kind = "handler" /\ resp.patStr = PatImages)

\* /images was redirected to /images/ on a mux that holds only "/images/".
C4_Witness ==
  \E p \in Returned("findHandler") :
    /\ Registered(tree) = {PatImagesSlash}
    /\ ret[p].req.Path = PathImages
    /\ ret[p].resp.kind = "redirect"

\* C5 as stated: with "/images/" as the only registered pattern, a request
\* for /images/thumb yields no match (and no redirect).
C5_ThumbIsNoMatch ==
  \A p \in Returned("findHandler") :
    (Registered(tree) = {PatImagesSlash} /\ ret[p].req.Path = PathThumb)
      => ret[p].resp.kind \in {"notFound", "notAllowed"}

\* C5, amended: with "/images/" as the only registered pattern, a request for
\* /images/thumb is routed to the handler of "/images/", whose trailing slash
\* matches the rest of the path; there is no redirect.
C5_ThumbIsRoutedToSubtree ==
  \A p \in Returned("findHandler") :
    (Registered(tree) = {PatImagesSlash} /\ ret[p].req.Path = PathThumb)
      => /\ ret[p].resp.kind = "handler"
         /\ ret[p].resp.patStr = PatImagesSlash
         /\ ret[p].resp.handler = "h1"

\* /images/thumb was looked up on a mux that holds only "/images/".
C5_Witness ==
  \E p \in Returned("findHandler") :
    /\ Registered(tree) = {PatImagesSlash}
    /\ ret[p].req.Path = PathThumb
    /\ ret[p].resp.kind = "handler"

AllMethods == {"GET", "HEAD", "POST", "CONNECT"}

\* The requests and the paths each pattern matches.
MatchedRequests ==
  [s \in ValidPatterns |->
     {q \in {"", "h"} \X AllMethods \X CleanPaths :
        PatternMatches(parsePattern(s).pat, q[1], q[2], q[3])}]

MatchedPaths ==
  [s \in ValidPatterns |-> {path \in CleanPaths : PathMatches(parsePattern(s).pat, path)}]

\* The host tie-break applies when one pattern has a host and the other none.
HostTieBreak(p1, p2) == (p1.host = "") # (p2.host = "")

\* The pairs of patterns that match the same requests.
SameRequests ==
  {pq \in ValidPatterns \X ValidPatterns : MatchedRequests[pq[1]] = MatchedRequests[pq[2]]}

\* The pairs of patterns that match overlapping sets of requests neither of
\* which holds the other.
Incomparable ==
  {pq \in ValidPatterns \X ValidPatterns :
     /\ MatchedRequests[pq[1]] \cap MatchedRequests[pq[2]] # {}
     /\ ~(MatchedRequests[pq[1]] \subseteq MatchedRequests[pq[2]])
     /\ ~(MatchedRequests[pq[2]] \subseteq MatchedRequests[pq[1]])}

\* The pairs of patterns the paths of one of which hold the paths of the
\* other.
NestedPaths ==
  {pq \in ValidPatterns \X ValidPatterns :
     \/ MatchedPaths[pq[1]] \subseteq MatchedPaths[pq[2]]
     \/ MatchedPaths[pq[2]] \subseteq MatchedPaths[pq[1]]}

\* A step in which goroutine p returns from a register call.
RegisterReturns(p) ==
  /\ ret'[p].op = "register"
  /\ ret'[p] # ret[p] \/ index' # index \/ tree' # tree

C8_MatchIsFirstInPreferenceOrder ==
  \A p \in Returned("findHandler") :
    LET r    == ret[p].req
        resp == ret[p].resp
        host == lastMatchHost(r)
        path == matchPathOf(r)
        M    == Matching(tree, host, r.Method, path)
    IN /\ resp.kind \in {"notFound", "notAllowed"} => M = {}
       /\ resp.kind = "handler"
            => \E q \in M : /\ IsFirst(q, tree, host, r.Method, path)
                            /\ resp.patStr = q.str
       /\ (M # {} /\ ~TrailingSlashCase(tree, r) /\ path = r.Path)
            => resp.kind = "handler"
       /\ (Registered(tree) = {PatAB, PatCD} /\ r.Path \in {PathAD, PathAX})
            => (resp.kind = "handler" /\ resp.patStr = PatAB)
       /\ (Registered(tree) = {PatAB, PatCD} /\ r.Path = PathXD)
            => (resp.kind = "handler" /\ resp.patStr = PatCD)

\* /a/d, which both "/a/{b}" and "/{c}/d" match, was routed to "/a/{b}".
C8_Witness ==
  \E p \in Returned("findHandler") :
    /\ Registered(tree) = {PatAB, PatCD}
    /\ ret[p].req.Path = PathAD
    /\ ret[p].resp.patStr = PatAB

\* Pairs of patterns <<P, Q>> that differ only in that P has a host.
HostPairs == {<<PatHostA, PatA>>, <<PatHostImages, PatImagesSlash>>}

\* C9: two patterns P and Q that differ only in that P has a host register in
\* either order; a request both match is routed to P, and a request for
\* another host that Q matches is routed to Q.
C9_HostPatternTakesPrecedence ==
  \A pq \in HostPairs :
    LET P == parsePattern(pq[1]).pat
        Q == parsePattern(pq[2]).pat
    IN /\ \A p \in Returned("register") :
            (/\ ret[p].patstr \in {pq[1], pq[2]}
             /\ ret[p].handler = "h1"
             /\ Registered(tree) \subseteq {pq[1], pq[2]}
             /\ ret[p].err # "")
              => ret[p].patstr \in Registered(tree)
       /\ \A p \in Returned("findHandler") :
            LET r    == ret[p].req
                resp == ret[p].resp
                host == lastMatchHost(r)
                path == matchPathOf(r)
                kind == IF path = r.Path THEN "handler" ELSE "redirect"
            IN Registered(tree) = {pq[1], pq[2]}
                 => /\ (/\ PatternMatches(P, host, r.Method, path)
                        /\ PatternMatches(Q, host, r.Method, path))
                         => (resp.kind = kind /\ resp.patStr = pq[1])
                    /\ (/\ ~PatternMatches(P, host, r.Method, path)
                        /\ PatternMatches(Q, host, r.Method, path))
                         => (resp.kind = kind /\ resp.patStr = pq[2])

\* With "h/a" and "/a" registered, a request for /a on host h, sent with a
\* port, was routed to "h/a".
C9_Witness ==
  \E p \in Returned("findHandler") :
    /\ Registered(tree) = {PatHostA, PatA}
    /\ ret[p].req.Host = HostPort
    /\ ret[p].req.Path = PathA
    /\ ret[p].resp.patStr = PatHostA

\* The methods a pattern accepts.
AcceptedMethods(pat) ==
  IF pat.method = "" THEN AllMethods
  ELSE IF pat.method = "GET" THEN {"GET", "HEAD"}
  ELSE {pat.method}

\* C10 as stated: when the primary match for (host, method, path) finds no
\* route, the methods query returns exactly the methods accepted by the
\* registered patterns whose host and path match the request, and the outcome
\* is method-not-allowed iff such a pattern exists.
C10_AllowedMethodsOfMatchingPaths ==
  \A p \in Returned("findHandler") :
    LET r    == ret[p].req
        resp == ret[p].resp
        host == matchHost(r)
        path == matchPathOf(r)
        qs   == {q \in TreePatterns(tree) : HostMatches(q, host) /\ PathMatches(q, path)}
    IN (resp.kind \in {"notFound", "notAllowed"} /\ lastMatchHost(r) = host)
         => /\ resp.allow = UNION {AcceptedMethods(q) : q \in qs}
            /\ resp.kind = "notAllowed" <=> qs # {}

\* C10, amended: when the primary match finds no route, the methods query
\* returns exactly the methods accepted by the registered patterns that name a
\* method, whose host matches, and whose path matches the request path or,
\* when that path does not end in "/", the path with "/" appended; the
\* outcome is method-not-allowed iff the set is not empty. With only "GET /x"
\* registered, POST /x gives {"GET", "HEAD"} and a path no pattern is
\* registered for gives the empty set.
C10_AllowedMethodsOfPathOrPathSlash ==
  \A p \in Returned("findHandler") :
    LET r    == ret[p].req
        resp == ret[p].resp
        host == matchHost(r)
        path == matchPathOf(r)
        qs   == {q \in TreePatterns(tree) :
                   /\ q.method # ""
                   /\ HostMatches(q, host)
                   /\ \/ PathMatches(q, path)
                      \/ ~HasSuffixSlash(path) /\ PathMatches(q, path \o <<"/">>)}
    IN /\ resp.kind \in {"notFound", "notAllowed"}
            => /\ resp.allow = UNION {AcceptedMethods(q) : q \in qs}
               /\ resp.kind = "notAllowed" <=> qs # {}
               /\ lastMatchHost(r) = host
                    => \A q \in TreePatterns(tree) :
                         q.method = "" => ~(HostMatches(q, host) /\ PathMatches(q, path))
       /\ (Registered(tree) = {PatGetX} /\ r.Method = "POST" /\ r.Path = PathX)
            => resp = MethodNotAllowed({"GET", "HEAD"})
       /\ (Registered(tree) = {PatGetX} /\ r.Method = "POST" /\ r.Path = PathA)
            => resp = NotFound

\* POST /x on a mux that holds only "GET /x" was answered with the methods
\* GET and HEAD.
C10_Witness ==
  \E p \in Returned("findHandler") :
    /\ Registered(tree) = {PatGetX}
    /\ ret[p].req.Method = "POST"
    /\ ret[p].req.Path = PathX
    /\ ret[p].resp.allow = {"GET", "HEAD"}

\* The patterns the index leaves out of the conflict check of pat.
Skipped(idx, pat) == IndexPatterns(idx) \ possiblyConflictingPatterns(idx, pat)

\* Whether q has, at a position where pat has a literal, another literal.
DiffersInLiteral(pat, q) ==
  \E i \in 1..Len(pat.segments) :
    /\ ~pat.segments[i].wild
    /\ i <= Len(q.segments)
    /\ ~q.segments[i].wild
    /\ q.segments[i].s # pat.segments[i].s

\* Whether q ends before a position where pat has a literal.
EndsBeforeLiteral(pat, q) ==
  \E i \in 1..Len(pat.segments) : ~pat.segments[i].wild /\ i > Len(q.segments)

\* The index records each registered pattern that ends in a multi wildcard
\* in the list multis and every other one under one key for each of its
\* segments, (position, literal) or (position, "") for a wildcard.
IndexRecords(idx, tr) ==
  /\ IndexPatterns(idx) = TreePatterns(tr)
  /\ \A q \in IndexPatterns(idx) :
       IF lastSegment(q).multi
       THEN q \in Range(idx.multis) /\ \A k \in DOMAIN idx.segments : q \notin Range(idx.segments[k])
       ELSE /\ q \notin Range(idx.multis)
            /\ {k \in DOMAIN idx.segments : q \in Range(idx.segments[k])}
                 = {<<i - 1, IF q.segments[i].wild THEN "" ELSE q.segments[i].s>> :
                      i \in 1..Len(q.segments)}

\* C11 as stated: register with the index fails with a conflict iff the
\* comparison of the new pattern with every registered pattern finds a
\* conflict, and every pattern the index skips has a different literal at a
\* position where the new pattern has a literal.
C11_SkippedDifferInLiteral ==
  [][\A p \in Procs :
       (RegisterReturns(p) /\ registerArgs(ret'[p].patstr, ret'[p].handler).err = "")
         => LET new == parsePattern(ret'[p].patstr).pat IN
            /\ IndexRecords(index, tree)
            /\ ret'[p].err = "conflict"
                 <=> \E q \in TreePatterns(tree) : conflictsWith(new, q)
            /\ \A q \in Skipped(index, new) : DiffersInLiteral(new, q)]_vars

\* C11, amended: register with the index fails with a conflict iff the
\* comparison of the new pattern with every registered pattern finds a
\* conflict; every pattern the index skips cannot conflict with the new
\* pattern, because at a position where the new pattern has a literal it has
\* a different literal or it has no segment.
C11_IndexPruningKeepsOutcome ==
  [][\A p \in Procs :
       (RegisterReturns(p) /\ registerArgs(ret'[p].patstr, ret'[p].handler).err = "")
         => LET new == parsePattern(ret'[p].patstr).pat IN
            /\ IndexRecords(index, tree)
            /\ ret'[p].err = "conflict"
                 <=> \E q \in TreePatterns(tree) : conflictsWith(new, q)
            /\ \A q \in Skipped(index, new) :
                 /\ ~conflictsWith(new, q)
                 /\ DiffersInLiteral(new, q) \/ EndsBeforeLiteral(new, q)]_vars

\* "/a/d" was rejected on a mux that holds "GET /a/{b}", with which it
\* conflicts, and "/x/d", which the index skips.
C11_Witness ==
  \E p \in Returned("register") :
    /\ ret[p].patstr = PatAD
    /\ ret[p].err = "conflict"
    /\ Registered(tree) = {PatGetAB, PatXD}
    /\ parsePattern(PatXD).pat \in Skipped(index, parsePattern(PatAD).pat)

\* What is left of a path after its first n segments.
RECURSIVE DropSegments(_, _)
DropSegments(path, n) ==
  IF n = 0 \/ path = <<>> THEN path
  ELSE IF IndexByte(Tail(path), "/") = 0 THEN <<>>
  ELSE DropSegments(From(Tail(path), IndexByte(Tail(path), "/")), n - 1)

\* What the multi wildcard of a pattern that matches the path consumed: the
\* path after the segments before the wildcard and the slash that follows
\* them.
Remainder(pat, path) == Tail(DropSegments(path, Len(pat.segments) - 1))

\* C12: for a pattern and a path the pattern matches, exactMatch returns true
\* iff no multi wildcard of the pattern consumed a non-empty remainder of the
\* path: true when the last segment of the pattern is not a multi, and for a
\* pattern that ends in a multi true exactly when the path ends in "/" and
\* the pattern has as many segments as the path has slashes; for a nil node
\* it returns false.
C12_ExactMatchIffEmptyRemainder ==
  \A p \in Returned("exactMatch") :
    LET path == ret[p].req.Path
        pat  == parsePattern(ret[p].patstr).pat
    IN IF ret[p].patstr = <<>> THEN ~ret[p].exact
       ELSE PathMatches(pat, path)
              => /\ ret[p].exact
                      <=> (~lastSegment(pat).multi \/ Remainder(pat, path) = <<>>)
                 /\ ~lastSegment(pat).multi => ret[p].exact
                 /\ lastSegment(pat).multi
                      => (ret[p].exact
                            <=> /\ HasSuffixSlash(path)
                                /\ Len(pat.segments) = Count(path, "/"))

\* exactMatch returned false for "/a/" and the path /a/d/, which the pattern
\* matches and which ends in a slash.
C12_Witness ==
  \E p \in Returned("exactMatch") :
    /\ ret[p].patstr = PatASlash
    /\ ret[p].req.Path = PathADSlash
    /\ PathMatches(parsePattern(PatASlash).pat, PathADSlash)
    /\ ~ret[p].exact

====
